---- MODULE Spec2Model ----
(***************************************************************************)
(* Task board backend: the REST handlers of controllers/taskController.js  *)
(* and controllers/userController.js over the Task and User collections.   *)
(* Every handler is an async function: each `await` on the database is one *)
(* atomic step, and the steps of concurrent requests interleave freely.    *)
(* A Mongoose document read by findById is a private snapshot (doc); save  *)
(* writes back only the paths whose value differs from the snapshot.       *)
(*                                                                         *)
(* req[p] is the request handler p is running, and once it has answered,   *)
(* the request together with its response (pc = "replied") until the       *)
(* client of p sends its next request.                                     *)
(***************************************************************************)
EXTENDS Integers, Sequences, FiniteSets, TLC

\* ---------------------------------------------------------------- bounds
NProcs == 2
NUsers == 2
MaxTasks == 2
MaxVersion == 3
MaxPos == 2
MaxComments == 2
MaxActivities == 2
NSockets == 2

Procs == 1..NProcs
Users == 1..NUsers
TaskIds == 1..MaxTasks
Positions == 0..MaxPos
Sockets == 1..NSockets

\* ------------------------------------------------------- program constants
Statuses == {"todo", "in-progress", "done"}
ActiveStatuses == {"todo", "in-progress"}
DefaultStatus == "todo"
DefaultPosition == 0
DefaultVersion == 1

\* Titles a client sends (already accepted by the Joi schema: trimmed, 1..200
\* characters, not a column name). Letters only, in two cases.
Titles == {"a", "A", "b"}

\* assignedTo: a user id, or Unset (the path is absent / null)
Unset == 0
\* a request field the client did not send
Absent == -1
NoTitle == ""
\* passwords: the one every user starts with, another one, and one shorter
\* than changePassword accepts
DefaultPassword == "secret1"
Passwords == {"secret1", "secret2", "short"}
MinPasswordLength == 6
length(password) == IF password = "short" THEN 5 ELSE 7

\* a conflictId that is undefined
NoConflictId == 0

toLowerCase(t) == IF t = "A" THEN "a" ELSE t

\* new RegExp(`^${title}$`, 'i').test(s), for titles made of letters only
RegExpTestI(title, s) == toLowerCase(title) = toLowerCase(s)

\* role of a user in the directory (user 1 is the administrator)
Role(u) == IF u = 1 THEN "admin" ELSE "member"

NoTask == [exists |-> FALSE, title |-> NoTitle, status |-> DefaultStatus,
           position |-> 0, version |-> 0, assignedTo |-> Unset, createdBy |-> 0,
           lastModifiedBy |-> 0, isArchived |-> FALSE, comments |-> <<>>]

\* A request: its inputs (op, actor, id, kv = the body's version or 0 when
\* absent, title, status, position, assignee, active), the handler's locals
\* (doc = the task findById returned, udoc = the isActive of the user
\* findById returned, cands = the users findActiveUsers returned), and the
\* response (code; cv, sv = the clientVersion and serverVersion of a conflict
\* descriptor; for a success sv = the version of the task returned). `again` is history: the request
\* repeats, with the version just returned, the move just answered. cid is the
\* conflictId of the conflict descriptor (NoConflictId: the descriptor has none),
\* list the tasks a getAllTasks response holds. logged is history: the actions
\* of the activities the request persisted for its event.
IdleReq == [pc |-> "idle", op |-> "none", actor |-> 0, id |-> 0, kv |-> 0,
            doc |-> NoTask, title |-> NoTitle, status |-> DefaultStatus,
            position |-> 0, assignee |-> Absent, active |-> TRUE, udoc |-> TRUE,
            cands |-> {}, code |-> "none", cv |-> 0, sv |-> 0, again |-> FALSE,
            cid |-> NoConflictId, list |-> {}, logged |-> <<>>]

\* activities: the Activity documents whose action is conflict_detected or
\* conflict_resolved. sockets[s]: the Socket.IO connection s (its state, the
\* user of its token, its rooms). connectedUsers: the keys of the
\* connectedUsers map.
\* activityStore: whether a write to the Activity collection succeeds.
VARIABLES tasks, users, req, emitted, activities, sockets, connectedUsers,
          activityStore

vars == <<tasks, users, req, emitted, activities, sockets, connectedUsers,
          activityStore>>

socketVars == <<sockets, connectedUsers>>

\* ----------------------------------------------------------------- queries

\* Task.findOne({title: /^title$/i, isArchived: false, _id: {$ne: excludeId}})
\* returns nothing
validateUniqueTitle(title, excludeId) ==
    ~ \E t \in TaskIds :
        /\ tasks[t].exists
        /\ ~ tasks[t].isArchived
        /\ t # excludeId
        /\ RegExpTestI(title, tasks[t].title)

\* User.findActiveUsers()
findActiveUsers == {u \in Users : users[u].isActive}

\* Task.countDocuments({assignedTo: u, status: {$in: [todo, in-progress]},
\*                      isArchived: false})
countDocuments(u) ==
    Cardinality({t \in TaskIds : /\ tasks[t].exists
                                 /\ tasks[t].assignedTo = u
                                 /\ tasks[t].status \in ActiveStatuses
                                 /\ ~ tasks[t].isArchived})

\* the minimum is not taken: every active user counts as a candidate
usersWithAnyTasks(cands) == cands

\* minCount = Math.min(...counts); the users whose count === minCount
usersWithMinTasks(cands) ==
    {u \in cands : \A w \in cands : countDocuments(u) <= countDocuments(w)}

\* the comparison of hasConflict turned around
hasConflictReversed(task, clientVersion) == task.version < clientVersion

\* task.hasConflict(clientVersion)
hasConflict(task, clientVersion) == task.version > clientVersion

\* the check when an edit session on the task locks it against the others
conflictCheckOrLocked(task, clientVersion) ==
    \/ clientVersion # 0 /\ hasConflict(task, clientVersion)
    \/ \E t \in TaskIds, s \in Sockets :
          tasks[t] = task /\ [kind |-> "editing", id |-> t] \in sockets[s].rooms

\* `clientVersion && task.hasConflict(clientVersion)`: a missing (0) version
\* is falsy and skips the check
conflictCheck(task, clientVersion) ==
    clientVersion # 0 /\ hasConflict(task, clientVersion)

\* the ids not used by any stored task
FreeIds == {t \in TaskIds : ~ tasks[t].exists}

\* new Task(...)._id : a fresh id
NewId == CHOOSE t \in FreeIds : \A s \in FreeIds : t <= s

\* taskSchema.pre('save'): isModified() && !isNew => version += 1
preSave(doc, modified) ==
    IF modified THEN [doc EXCEPT !.version = doc.version + 1] ELSE doc

\* isModified(): some path differs from the snapshot findById returned
isModified(orig, doc) == doc # orig

\* document.save() of an existing task: $set of the modified paths only.
\* `orig` is the snapshot findById returned, `doc` the document after the
\* handler's assignments and the pre-save hook.
saveTask(stored, orig, doc) ==
    [f \in DOMAIN stored |-> IF doc[f] # orig[f] THEN doc[f] ELSE stored[f]]

\* user.save(): writes isActive when the assignment changed the snapshot
saveUser(stored, orig, isActive) ==
    IF isActive # orig THEN [stored EXCEPT !.isActive = isActive] ELSE stored

\* the reply turns into a 500 when the activity write failed
FinishUnlessLogFailed(p, r, code, sv) ==
    req' = [req EXCEPT ![p] =
              [r EXCEPT !.pc = "replied", !.sv = sv,
                        !.code = IF code = "ok" /\ ~ activityStore
                                 THEN "Internal" ELSE code]]

\* res.status(..).json(..): the handler ends with response `code`
Finish(p, r, code, sv) ==
    req' = [req EXCEPT ![p] = [r EXCEPT !.pc = "replied", !.code = code, !.sv = sv]]

Goto(p, r, pc) == req' = [req EXCEPT ![p] = [r EXCEPT !.pc = pc]]

\* the authenticate middleware: the client of p has no request pending and
\* its token belongs to an active user
authenticate(p, actor) ==
    /\ req[p].pc \in {"idle", "replied"}
    /\ users[actor].isActive

\* the 404 check without `task.isArchived`
NotFoundUnlessArchived(id) == ~ tasks[id].exists

\* the first await of every task handler that takes an id:
\* Task.findById(id), then `!task || task.isArchived` -> 404
NotFound(id) == ~ tasks[id].exists \/ tasks[id].isArchived

\* The model starts no request that would push a version past MaxVersion.
VersionRoom(id, kv) ==
    \/ NotFound(id)
    \/ conflictCheck(tasks[id], kv)
    \/ tasks[id].version < MaxVersion

\* the enum of activitySchema.action
ActivityActions ==
    {"task_created", "task_updated", "task_deleted", "task_assigned",
     "task_unassigned", "task_moved", "task_commented", "task_archived",
     "task_unarchived", "user_registered", "user_login", "user_logout",
     "conflict_detected", "conflict_resolved", "smart_assign"}

\* activity.save() inside logActivity: validation of the action against the
\* enum, then the write; any error is caught and logActivity returns null
persists(action) == activityStore /\ action \in ActivityActions

\* Activity.logActivity(activityData): new Activity(activityData).save()
logActivity(activityData) ==
    activities' = IF persists(activityData.action)
                  THEN activities \cup {activityData}
                  ELSE activities

\* Activity.logActivity({action, ..}) of the handler of request r for its event
Logged(r, action) ==
    [r EXCEPT !.logged = IF persists(action) THEN <<action>> ELSE <<>>]

\* randomUUID(): an id no activity carries yet
randomUUID == 1 + Cardinality({a \in activities : a.action = "conflict_detected"})

\* the handlers whose conflict branch calls Activity.logActivity before the 409
LogsConflict(op) == op = "update"

\* a task handler up to its conflict check: findById, 404, 409 with
\* conflict: {clientVersion, serverVersion: task.version} (updateTask logs a
\* conflict_detected activity first), else on to `pc`
Begin(p, r, pc) ==
    /\ VersionRoom(r.id, r.kv)
    /\ IF NotFound(r.id)
       THEN Finish(p, r, "NotFound", 0) /\ UNCHANGED activities
       ELSE IF conflictCheck(tasks[r.id], r.kv)
       THEN /\ Finish(p, [r EXCEPT !.cv = r.kv], "Conflict", tasks[r.id].version)
            /\ IF LogsConflict(r.op)
               THEN /\ randomUUID <= MaxActivities
                    /\ logActivity([action |-> "conflict_detected", actor |-> r.actor,
                                    target |-> r.id, conflictId |-> randomUUID,
                                    isResolved |-> FALSE, resolution |-> "none"])
               ELSE UNCHANGED activities
       ELSE Goto(p, [r EXCEPT !.doc = tasks[r.id]], pc) /\ UNCHANGED activities
    /\ UNCHANGED <<tasks, users, emitted, socketVars, activityStore>>

\* io.todoBoard.emitToBoard(event, data): io.to('board').emit(event, data)
emitToBoard(event, id) ==
    emitted' = emitted \cup {[room |-> "board", event |-> event, task |-> id]}

\* io.todoBoard.emitToTask(taskId, event, data): io.to(`task:${taskId}`).emit
emitToTask(id, event) ==
    emitted' = emitted \cup {[room |-> "task", event |-> event, task |-> id]}

\* socket.handshake.auth.token: none, one jwt.verify rejects, or one signed
\* for a user id (id NUsers + 1 is of no stored user)
NoToken == 0
InvalidToken == -1
Tokens == {NoToken, InvalidToken} \cup (1..(NUsers + 1))

\* null, for a user
NoUser == 0

\* no connection: state "none"; then "verified" (io.use called next()),
\* "connected", "closed", or "rejected"
NoSocket == [state |-> "none", token |-> NoToken, user |-> NoUser, rooms |-> {}]

Init ==
    /\ tasks = [t \in TaskIds |-> NoTask]
    /\ users = [u \in Users |-> [isActive |-> TRUE, password |-> DefaultPassword]]
    /\ req = [p \in Procs |-> IdleReq]
    /\ emitted = {}
    /\ activities = {}
    /\ sockets = [s \in Sockets |-> NoSocket]
    /\ connectedUsers = {}
    /\ activityStore = TRUE

\* ---------------------------------------------------------------- sockets

\* the lookup without `!user.isActive`
extractUserIgnoringActive(token) ==
    IF token = InvalidToken \/ token \notin Users THEN NoUser ELSE token

\* extractUserFromToken(token): jwt.verify throws -> null; User.findById;
\* `!user || !user.isActive` -> null
extractUserFromToken(token) ==
    IF token = InvalidToken THEN NoUser
    ELSE IF token \notin Users THEN NoUser
    ELSE IF ~ users[token].isActive THEN NoUser
    ELSE token

\* the resolutions the conflict dialog offers
Resolutions == {"merge", "overwrite", "cancel"}

\* the rooms of Socket.IO
Room(kind, id) == [kind |-> kind, id |-> id]
Board == Room("board", 0)

\* the sockets in a room
Members(room) == {s \in Sockets : room \in sockets[s].rooms}

\* the message `event` about `task` from socket `from`, sent to the members `to`
\* of `room`; `list` is the payload of users:updated
Message(room, event, task, from, to, list) ==
    [room |-> room.kind, event |-> event, task |-> task, from |-> from,
     to |-> to, users |-> list]

\* socket.to(room).emit(event, ..): to the members of the room except the sender
socketTo(s, room, event, task) ==
    Message(room, event, task, s, Members(room) \ {s}, {})

\* io.to(room) turned into socket.to(room): the sender is left out
ioToOthers(s, room, event, task, list) ==
    Message(room, event, task, s, Members(room) \ {s}, list)

\* io.to(room).emit(event, ..): to every member of the room
ioTo(s, room, event, task, list) ==
    Message(room, event, task, s, Members(room), list)

\* io.use: the authentication middleware of the handshake
Handshake(s, token) ==
    /\ sockets[s].state = "none"
    /\ LET user == extractUserFromToken(token)
       IN sockets' = [sockets EXCEPT ![s] =
            IF token = NoToken \/ user = NoUser
            THEN [@ EXCEPT !.state = "rejected", !.token = token]
            ELSE [@ EXCEPT !.state = "verified", !.token = token, !.user = user]]
    /\ UNCHANGED <<tasks, users, req, emitted, activities, connectedUsers, activityStore>>

\* io.on('connection'): connectedUsers.set, join user:<id> and board, and
\* users:updated to the board
Connection(s) ==
    /\ sockets[s].state = "verified"
    /\ connectedUsers' = connectedUsers \cup {s}
    /\ sockets' = [sockets EXCEPT ![s] =
                     [@ EXCEPT !.state = "connected",
                               !.rooms = {Room("user", sockets[s].user), Board}]]
    /\ emitted' = emitted \cup
          {Message(Board, "users:updated", 0, s, Members(Board) \cup {s},
                   connectedUsers')}
    /\ UNCHANGED <<tasks, users, req, activities, activityStore>>

\* socket.on('task:join')
TaskJoin(s, taskId) ==
    /\ sockets[s].state = "connected"
    /\ sockets' = [sockets EXCEPT ![s].rooms = @ \cup {Room("task", taskId)}]
    /\ UNCHANGED <<tasks, users, req, emitted, activities, connectedUsers, activityStore>>

\* socket.on('task:leave')
TaskLeave(s, taskId) ==
    /\ sockets[s].state = "connected"
    /\ sockets' = [sockets EXCEPT ![s].rooms = @ \ {Room("task", taskId)}]
    /\ UNCHANGED <<tasks, users, req, emitted, activities, connectedUsers, activityStore>>

\* socket.on('task:start-edit'): task:edit-started to the others of task:<id>,
\* join editing:<id>
StartEdit(s, taskId) ==
    /\ sockets[s].state = "connected"
    /\ emitted' = emitted \cup
          {socketTo(s, Room("task", taskId), "task:edit-started", taskId)}
    /\ sockets' = [sockets EXCEPT ![s].rooms = @ \cup {Room("editing", taskId)}]
    /\ UNCHANGED <<tasks, users, req, activities, connectedUsers, activityStore>>

\* socket.on('task:end-edit'): task:edit-ended to the others of task:<id>,
\* leave editing:<id>
EndEdit(s, taskId) ==
    /\ sockets[s].state = "connected"
    /\ emitted' = emitted \cup
          {socketTo(s, Room("task", taskId), "task:edit-ended", taskId)}
    /\ sockets' = [sockets EXCEPT ![s].rooms = @ \ {Room("editing", taskId)}]
    /\ UNCHANGED <<tasks, users, req, activities, connectedUsers, activityStore>>

\* socket.on('conflict:resolve'): conflict:resolved to task:<id>, then
\* logActivity of conflict_resolved (isResolved by the schema default, true)
ConflictResolve(s, taskId, resolution, conflictId) ==
    /\ sockets[s].state = "connected"
    /\ emitted' = emitted \cup
          {ioTo(s, Room("task", taskId), "conflict:resolved", taskId, {})}
    /\ logActivity([action |-> "conflict_resolved", actor |-> sockets[s].user,
                    target |-> taskId, conflictId |-> conflictId,
                    isResolved |-> TRUE, resolution |-> resolution])
    /\ UNCHANGED <<tasks, users, req, sockets, connectedUsers, activityStore>>

\* the rooms are kept
keepRooms(rooms) == rooms

\* Socket.IO leaves every room of a closing socket before it fires
\* 'disconnect' ('disconnecting' is the event that still sees the rooms)
leaveAll(rooms) == {}

\* socket.on('disconnect'): connectedUsers.delete, users:updated to the board,
\* task:edit-ended for every editing: room still in socket.rooms
Disconnect(s) ==
    /\ sockets[s].state = "connected"
    /\ LET rooms == leaveAll(sockets[s].rooms)
           left == [sockets EXCEPT ![s] = [@ EXCEPT !.state = "closed", !.rooms = rooms]]
           to(room) == {r \in Sockets : room \in left[r].rooms}
       IN /\ sockets' = left
          /\ connectedUsers' = connectedUsers \ {s}
          /\ emitted' = emitted
               \cup {Message(Board, "users:updated", 0, s, to(Board), connectedUsers')}
               \cup {Message(Room("task", room.id), "task:edit-ended", room.id, s,
                             to(Room("task", room.id)) \ {s}, {}) :
                       room \in {r \in rooms : r.kind = "editing"}}
    /\ UNCHANGED <<tasks, users, req, activities, activityStore>>

\* the entry connectedUsers.set(socket.id, {id: socket.user._id.toString(),
\* .., socketId: socket.id}) stored for socket s
userInfo(s) == [id |-> ToString(sockets[s].user), socketId |-> s]

\* getConnectedUsers(): Array.from(connectedUsers.values())
getConnectedUsers == {userInfo(s) : s \in connectedUsers}

\* true as soon as anyone is connected
isAnyUserConnected(userId) == getConnectedUsers # {}

\* isUserConnected(userId): some(user => user.id === userId)
isUserConnected(userId) == \E user \in getConnectedUsers : user.id = userId

\* ------------------------------------------------------------- createTask

\* createTask up to the first await: Task.validateUniqueTitle(taskData.title)
CreateStart(p, actor, title, status, position, assignee) ==
    /\ authenticate(p, actor)
    /\ Cardinality(FreeIds) > Cardinality({q \in Procs : req[q].pc \in {"c_user", "c_save"}})
    /\ LET r == [IdleReq EXCEPT !.op = "create", !.actor = actor, !.title = title,
                               !.status = status, !.position = position,
                               !.assignee = assignee]
       IN IF ~ validateUniqueTitle(title, 0)
          THEN Finish(p, r, "DuplicateTitle", 0)
          ELSE Goto(p, r, IF assignee \in Users THEN "c_user" ELSE "c_save")
    /\ UNCHANGED <<tasks, users, emitted, activities, socketVars, activityStore>>

\* createTask: User.findById(taskData.assignedTo)
CreateUser(p) ==
    /\ req[p].pc = "c_user"
    /\ IF ~ users[req[p].assignee].isActive
       THEN Finish(p, req[p], "InvalidAssignee", 0)
       ELSE Goto(p, req[p], "c_save")
    /\ UNCHANGED <<tasks, users, emitted, activities, socketVars, activityStore>>

\* new Task({...req.body, createdBy, lastModifiedBy}): the schema defaults
\* give version 1; position and status are the body's (Joi default 0, todo)
newTask(r) ==
    [exists |-> TRUE, title |-> r.title, status |-> r.status,
     position |-> r.position, version |-> DefaultVersion,
     assignedTo |-> IF r.assignee \in Users THEN r.assignee ELSE Unset,
     createdBy |-> r.actor, lastModifiedBy |-> r.actor, isArchived |-> FALSE,
     comments |-> <<>>]

\* createTask: task.save(), logActivity, res.status(201)
CreateSave(p) ==
    /\ req[p].pc = "c_save"
    /\ tasks' = [tasks EXCEPT ![NewId] = newTask(req[p])]
    /\ Finish(p, Logged([req[p] EXCEPT !.id = NewId, !.doc = newTask(req[p])],
                        "task_created"), "ok", DefaultVersion)
    /\ UNCHANGED <<users, emitted, activities, socketVars, activityStore>>

\* ------------------------------------------------------------- updateTask

\* `updateData.title && updateData.title !== task.title`
TitleChanges(r, task) == r.title # NoTitle /\ r.title # task.title

\* `updateData.assignedTo && updateData.assignedTo !== task.assignedTo`
AssigneeChanges(r, task) == r.assignee \in Users /\ r.assignee # task.assignedTo

\* updateTask: findById, the 404 and conflict checks
UpdateStart(p, actor, id, kv, title, assignee) ==
    /\ authenticate(p, actor)
    /\ LET r == [IdleReq EXCEPT !.op = "update", !.actor = actor, !.id = id,
                               !.kv = kv, !.title = title, !.assignee = assignee]
       IN Begin(p, r, IF TitleChanges(r, tasks[id]) THEN "u_uniq"
                      ELSE IF AssigneeChanges(r, tasks[id]) THEN "u_user"
                      ELSE "u_save")

\* updateTask: Task.validateUniqueTitle(updateData.title, id)
UpdateUniq(p) ==
    /\ req[p].pc = "u_uniq"
    /\ LET r == req[p]
       IN IF ~ validateUniqueTitle(r.title, r.id)
          THEN Finish(p, r, "DuplicateTitle", 0)
          ELSE Goto(p, r, IF AssigneeChanges(r, r.doc) THEN "u_user" ELSE "u_save")
    /\ UNCHANGED <<tasks, users, emitted, activities, socketVars, activityStore>>

\* updateTask: User.findById(updateData.assignedTo)
UpdateUser(p) ==
    /\ req[p].pc = "u_user"
    /\ IF ~ users[req[p].assignee].isActive
       THEN Finish(p, req[p], "InvalidAssignee", 0)
       ELSE Goto(p, req[p], "u_save")
    /\ UNCHANGED <<tasks, users, emitted, activities, socketVars, activityStore>>

\* Object.assign(task, updateData); task.lastModifiedBy = req.user._id:
\* the body's own `version` is assigned to the document as well
assignUpdate(r) ==
    [r.doc EXCEPT !.title = IF r.title # NoTitle THEN r.title ELSE @,
                  !.assignedTo = IF r.assignee # Absent THEN r.assignee ELSE @,
                  !.version = IF r.kv # 0 THEN r.kv ELSE @,
                  !.lastModifiedBy = r.actor]

\* updateTask: task.lastModified = new Date() (always a modification);
\* task.save(); logActivity; res.json
UpdateSave(p) ==
    /\ req[p].pc = "u_save"
    /\ LET r == req[p]
           doc == preSave(assignUpdate(r), TRUE)
       IN /\ tasks' = [tasks EXCEPT ![r.id] = saveTask(tasks[r.id], r.doc, doc)]
          /\ Finish(p, Logged(r, "task_updated"), "ok", doc.version)
    /\ UNCHANGED <<users, emitted, activities, socketVars, activityStore>>

\* --------------------------------------------------------------- moveTask

\* history: the client of p repeats the move it was just answered, sending
\* the version that answer returned
Repeats(p, id, kv, status, position) ==
    /\ req[p].pc = "replied" /\ req[p].op = "move" /\ req[p].code = "ok"
    /\ req[p].id = id /\ req[p].status = status /\ req[p].position = position
    /\ req[p].sv = kv

\* moveTask: findById, the 404 and conflict checks
MoveStart(p, actor, id, kv, status, position) ==
    /\ authenticate(p, actor)
    /\ LET r == [IdleReq EXCEPT !.op = "move", !.actor = actor, !.id = id,
                               !.kv = kv, !.status = status, !.position = position,
                               !.again = Repeats(p, id, kv, status, position)]
       IN Begin(p, r, "m_save")

\* task.status = status; task.position = position; task.lastModifiedBy = user
assignMove(r) ==
    [r.doc EXCEPT !.status = r.status, !.position = r.position,
                  !.lastModifiedBy = r.actor]

\* moveTask: task.save(); the handler keeps the saved document for its reply
MoveSave(p) ==
    /\ req[p].pc = "m_save"
    /\ LET r == req[p]
           doc == preSave(assignMove(r), isModified(r.doc, assignMove(r)))
       IN /\ tasks' = [tasks EXCEPT ![r.id] = saveTask(tasks[r.id], r.doc, doc)]
          /\ Goto(p, [r EXCEPT !.sv = doc.version], "m_shift")
    /\ UNCHANGED <<users, emitted, activities, socketVars, activityStore>>

\* the tasks Task.updateMany({_id: {$ne: id}, status, position: {$gte: position},
\* isArchived: false}) matches
shifted(id, status, position) ==
    {t \in TaskIds : /\ tasks[t].exists
                     /\ t # id
                     /\ tasks[t].status = status
                     /\ tasks[t].position >= position
                     /\ ~ tasks[t].isArchived}

\* moveTask: Task.updateMany(..., {$inc: {position: 1}}); logActivity; res.json
\* (the model stops a shift that would push a position past MaxPos)
MoveShift(p) ==
    /\ req[p].pc = "m_shift"
    /\ LET r == req[p]
           S == shifted(r.id, r.status, r.position)
       IN /\ \A t \in S : tasks[t].position < MaxPos
          /\ tasks' = [t \in TaskIds |->
                         IF t \in S
                         THEN [tasks[t] EXCEPT !.position = @ + 1]
                         ELSE tasks[t]]
          /\ Finish(p, Logged(r, "task_moved"), "ok", r.sv)
    /\ UNCHANGED <<users, emitted, activities, socketVars, activityStore>>

\* moveTask: task.save() rejects; nothing is written and the catch answers 500
MoveSaveFails(p) ==
    /\ req[p].pc = "m_save"
    /\ Finish(p, req[p], "Internal", 0)
    /\ UNCHANGED <<tasks, users, emitted, activities, socketVars, activityStore>>

\* moveTask: Task.updateMany rejects after task.save() has written; no other
\* task is shifted and the catch answers 500
MoveShiftFails(p) ==
    /\ req[p].pc = "m_shift"
    /\ Finish(p, req[p], "Internal", 0)
    /\ UNCHANGED <<tasks, users, emitted, activities, socketVars, activityStore>>

\* ------------------------------------------------------------- assignTask

\* assignTask: findById, the 404 and conflict checks
AssignStart(p, actor, id, kv, assignee) ==
    /\ authenticate(p, actor)
    /\ LET r == [IdleReq EXCEPT !.op = "assign", !.actor = actor, !.id = id,
                               !.kv = kv, !.assignee = assignee]
       IN Begin(p, r, "a_user")

\* assignTask: User.findById(assignedTo)
AssignUser(p) ==
    /\ req[p].pc = "a_user"
    /\ IF ~ users[req[p].assignee].isActive
       THEN Finish(p, req[p], "InvalidAssignee", 0)
       ELSE Goto(p, req[p], "a_save")
    /\ UNCHANGED <<tasks, users, emitted, activities, socketVars, activityStore>>

\* task.assignedTo = assignedTo; task.lastModifiedBy = req.user._id
assignAssignee(r) ==
    [r.doc EXCEPT !.assignedTo = r.assignee, !.lastModifiedBy = r.actor]

\* assignTask / smartAssignTask: task.save(); logActivity; res.json
AssignSave(p) ==
    /\ req[p].pc = "a_save"
    /\ LET r == req[p]
           doc == preSave(assignAssignee(r), isModified(r.doc, assignAssignee(r)))
       IN /\ tasks' = [tasks EXCEPT ![r.id] = saveTask(tasks[r.id], r.doc, doc)]
          /\ Finish(p, Logged(r, IF r.op = "smart" THEN "smart_assign"
                                  ELSE "task_assigned"), "ok", doc.version)
    /\ UNCHANGED <<users, emitted, activities, socketVars, activityStore>>

\* -------------------------------------------------------- smartAssignTask

\* smartAssignTask: findById, the 404 and conflict checks
SmartStart(p, actor, id, kv) ==
    /\ authenticate(p, actor)
    /\ LET r == [IdleReq EXCEPT !.op = "smart", !.actor = actor, !.id = id,
                               !.kv = kv]
       IN Begin(p, r, "s_users")

\* findUserWithFewestTasks: User.findActiveUsers(); none -> throws, and the
\* handler's catch answers 500
SmartUsers(p) ==
    /\ req[p].pc = "s_users"
    /\ IF findActiveUsers = {}
       THEN Finish(p, req[p], "Internal", 0)
       ELSE Goto(p, [req[p] EXCEPT !.cands = findActiveUsers], "s_count")
    /\ UNCHANGED <<tasks, users, emitted, activities, socketVars, activityStore>>

\* findUserWithFewestTasks: the counts, the minimum, and
\* usersWithMinTasks[Math.floor(Math.random() * length)]
findUserWithFewestTasks(p, selectedUser) ==
    /\ req[p].pc = "s_count"
    /\ selectedUser \in usersWithMinTasks(req[p].cands)
    /\ Goto(p, [req[p] EXCEPT !.assignee = selectedUser, !.cands = {}], "a_save")
    /\ UNCHANGED <<tasks, users, emitted, activities, socketVars, activityStore>>

\* ------------------------------------------------------------ archiveTask

\* archiveTask: findById and the 404 check
ArchiveStart(p, actor, id) ==
    /\ authenticate(p, actor)
    /\ Begin(p, [IdleReq EXCEPT !.op = "archive", !.actor = actor, !.id = id],
             "r_save")

\* task.archive(userId): isArchived = true, archivedAt = new Date(), save()
ArchiveSave(p) ==
    /\ req[p].pc = "r_save"
    /\ LET r == req[p]
           doc == preSave([r.doc EXCEPT !.isArchived = TRUE], TRUE)
       IN /\ tasks' = [tasks EXCEPT ![r.id] = saveTask(tasks[r.id], r.doc, doc)]
          /\ Finish(p, Logged(r, "task_archived"), "ok", doc.version)
    /\ UNCHANGED <<users, emitted, activities, socketVars, activityStore>>

\* ------------------------------------------------------------- addComment

\* addComment: findById and the 404 check
AddCommentStart(p, actor, id) ==
    /\ authenticate(p, actor)
    /\ Begin(p, [IdleReq EXCEPT !.op = "comment", !.actor = actor, !.id = id],
             "k_save")

\* task.addComment(text, userId): this.comments.push({text, author}); save().
\* The push is written as $push (appended to the stored array), the hook's
\* version as $set.
AddCommentSave(p) ==
    /\ req[p].pc = "k_save"
    /\ Len(tasks[req[p].id].comments) < MaxComments
    /\ LET r == req[p]
           doc == preSave(r.doc, TRUE)
           comment == r.actor
       IN /\ tasks' = [tasks EXCEPT ![r.id] =
                         [saveTask(tasks[r.id], r.doc, doc)
                            EXCEPT !.comments = Append(@, comment)]]
          /\ Finish(p, Logged(r, "task_commented"), "ok", doc.version)
    /\ UNCHANGED <<users, emitted, activities, socketVars, activityStore>>

\* ------------------------------------------------------ getTask, getAllTasks

\* getTask: findById; `!task || task.isArchived` -> 404
getTask(p, actor, id) ==
    /\ authenticate(p, actor)
    /\ LET r == [IdleReq EXCEPT !.op = "get", !.actor = actor, !.id = id]
       IN IF NotFound(id)
          THEN Finish(p, r, "NotFound", 0)
          ELSE Finish(p, [r EXCEPT !.doc = tasks[id]], "ok", tasks[id].version)
    /\ UNCHANGED <<tasks, users, emitted, activities, socketVars, activityStore>>

\* Task.find({isArchived: false})
find == {t \in TaskIds : tasks[t].exists /\ ~ tasks[t].isArchived}

\* getAllTasks without query filters
getAllTasks(p, actor) ==
    /\ authenticate(p, actor)
    /\ Finish(p, [IdleReq EXCEPT !.op = "list", !.actor = actor, !.list = find],
              "ok", 0)
    /\ UNCHANGED <<tasks, users, emitted, activities, socketVars, activityStore>>

\* ------------------------------------------------------------- deleteTask

\* deleteTask: findById, the 404 check, and the creator-or-admin check
DeleteStart(p, actor, id) ==
    /\ authenticate(p, actor)
    /\ LET r == [IdleReq EXCEPT !.op = "delete", !.actor = actor, !.id = id]
       IN IF NotFound(id)
          THEN Finish(p, r, "NotFound", 0)
          ELSE IF tasks[id].createdBy # actor /\ Role(actor) # "admin"
          THEN Finish(p, r, "Forbidden", 0)
          ELSE Goto(p, [r EXCEPT !.doc = tasks[id]], "x_delete")
    /\ UNCHANGED <<tasks, users, emitted, activities, socketVars, activityStore>>

\* deleteTask: Task.findByIdAndDelete(id); logActivity; res.json
DeleteSave(p) ==
    /\ req[p].pc = "x_delete"
    /\ tasks' = [tasks EXCEPT ![req[p].id] = NoTask]
    /\ Finish(p, Logged(req[p], "task_deleted"), "ok", 0)
    /\ UNCHANGED <<users, emitted, activities, socketVars, activityStore>>

\* --------------------------------------------------------- deactivateUser

\* deactivateUser behind requireAdmin: the self check and User.findById(id)
DeactivateStart(p, actor, id) ==
    /\ authenticate(p, actor)
    /\ LET r == [IdleReq EXCEPT !.op = "deactivate", !.actor = actor, !.id = id,
                               !.udoc = users[id].isActive]
       IN IF Role(actor) # "admin"
          THEN Finish(p, r, "Forbidden", 0)
          ELSE IF id = actor
          THEN Finish(p, r, "Validation", 0)
          ELSE Goto(p, r, "d_save")
    /\ UNCHANGED <<tasks, users, emitted, activities, socketVars, activityStore>>

\* deactivateUser: user.isActive = false; user.save()
DeactivateSave(p) ==
    /\ req[p].pc = "d_save"
    /\ users' = [users EXCEPT ![req[p].id] = saveUser(@, req[p].udoc, FALSE)]
    /\ Goto(p, req[p], "d_unassign")
    /\ UNCHANGED <<tasks, emitted, activities, socketVars, activityStore>>

\* deactivateUser: Task.updateMany({assignedTo: id}, {$unset: {assignedTo: 1}})
DeactivateUnassign(p) ==
    /\ req[p].pc = "d_unassign"
    /\ tasks' = [t \in TaskIds |->
                   IF tasks[t].exists /\ tasks[t].assignedTo = req[p].id
                   THEN [tasks[t] EXCEPT !.assignedTo = Unset]
                   ELSE tasks[t]]
    /\ Finish(p, Logged(req[p], "user_deactivated"), "ok", 0)
    /\ UNCHANGED <<users, emitted, activities, socketVars, activityStore>>

\* ------------------------------------------------------------- updateUser

\* updateUser behind requireAdmin: User.findById(id)
UpdateUserStart(p, actor, id, isActive) ==
    /\ authenticate(p, actor)
    /\ LET r == [IdleReq EXCEPT !.op = "updateUser", !.actor = actor, !.id = id,
                               !.active = isActive, !.udoc = users[id].isActive]
       IN IF Role(actor) # "admin"
          THEN Finish(p, r, "Forbidden", 0)
          ELSE Goto(p, r, "uu_save")
    /\ UNCHANGED <<tasks, users, emitted, activities, socketVars, activityStore>>

\* updateUser: `if (isActive !== undefined) user.isActive = isActive`; user.save()
UpdateUserSave(p) ==
    /\ req[p].pc = "uu_save"
    /\ users' = [users EXCEPT ![req[p].id] = saveUser(@, req[p].udoc, req[p].active)]
    /\ Finish(p, Logged(req[p], "user_updated"), "ok", 0)
    /\ UNCHANGED <<tasks, emitted, activities, socketVars, activityStore>>

\* --------------------------------------------------------- resolveConflict

\* Activity.findById(activityId) of an id no activity has
NoActivity == [action |-> "none", actor |-> NoUser, target |-> 0,
               conflictId |-> NoConflictId, isResolved |-> TRUE,
               resolution |-> "none"]

\* resolveConflict behind requireAdmin: the role check, Activity.findById
\* (`activity` is what it returns), 404, 400 for an activity that is no
\* conflict, 400 for a resolved one. The handler keeps the document it read.
ResolveStart(p, actor, activity) ==
    /\ authenticate(p, actor)
    /\ activity \in activities \cup {NoActivity}
    /\ LET r == [IdleReq EXCEPT !.op = "resolve", !.actor = actor,
                               !.cid = activity.conflictId]
       IN IF Role(actor) # "admin"
          THEN Finish(p, r, "Forbidden", 0)
          ELSE IF activity = NoActivity
          THEN Finish(p, r, "NotFound", 0)
          ELSE IF activity.action # "conflict_detected"
          THEN Finish(p, r, "Validation", 0)
          ELSE IF activity.isResolved
          THEN Finish(p, r, "Validation", 0)
          ELSE Goto(p, r, "v_save")
    /\ UNCHANGED <<tasks, users, emitted, activities, socketVars, activityStore>>

\* activity.markResolved(userId, resolution): this.isResolved = true;
\* this.save() writes the path without a condition on the stored value
\* (details.resolvedBy, details.resolution and details.resolvedAt are no paths
\* of the schema and are not stored); res.json
markResolved(stored, conflictId) ==
    {IF a.action = "conflict_detected" /\ a.conflictId = conflictId
     THEN [a EXCEPT !.isResolved = TRUE]
     ELSE a : a \in stored}

\* resolveConflict: await activity.markResolved(..); res.json
ResolveSave(p) ==
    /\ req[p].pc = "v_save"
    /\ activities' = markResolved(activities, req[p].cid)
    /\ Finish(p, req[p], "ok", 0)
    /\ UNCHANGED <<tasks, users, emitted, socketVars, activityStore>>

\* ------------------------------------------------------------ authController

\* login: User.findOne({email}); missing, deactivated or wrong password -> 401;
\* logActivity user_login; the token. `user` is the user of the email
\* (NUsers + 1: no user has it).
login(p, user, password) ==
    /\ req[p].pc \in {"idle", "replied"}
    /\ LET r == [IdleReq EXCEPT !.op = "login", !.actor = user]
       IN IF user \notin Users
          THEN Finish(p, r, "Unauthenticated", 0)
          ELSE IF ~ users[user].isActive
          THEN Finish(p, r, "Unauthenticated", 0)
          ELSE IF users[user].password # password
          THEN Finish(p, r, "Unauthenticated", 0)
          ELSE Finish(p, Logged(r, "user_login"), "ok", 0)
    /\ UNCHANGED <<tasks, users, emitted, activities, socketVars, activityStore>>

\* logout: logActivity user_logout
logout(p, actor) ==
    /\ authenticate(p, actor)
    /\ Finish(p, Logged([IdleReq EXCEPT !.op = "logout", !.actor = actor],
                        "user_logout"), "ok", 0)
    /\ UNCHANGED <<tasks, users, emitted, activities, socketVars, activityStore>>

\* changePassword: the length check, User.findById, comparePassword,
\* user.password = newPassword, user.save(), logActivity password_changed
changePassword(p, actor, currentPassword, newPassword) ==
    /\ authenticate(p, actor)
    /\ LET r == [IdleReq EXCEPT !.op = "password", !.actor = actor]
       IN IF length(newPassword) < MinPasswordLength
          THEN Finish(p, r, "Validation", 0) /\ UNCHANGED users
          ELSE IF users[actor].password # currentPassword
          THEN Finish(p, r, "Validation", 0) /\ UNCHANGED users
          ELSE /\ users' = [users EXCEPT ![actor].password = newPassword]
               /\ Finish(p, Logged(r, "password_changed"), "ok", 0)
    /\ UNCHANGED <<tasks, emitted, activities, socketVars, activityStore>>

\* ------------------------------------------------------------------ faults

\* writes to the Activity collection start to fail
ActivityStoreFails ==
    /\ activityStore
    /\ activityStore' = FALSE
    /\ UNCHANGED <<tasks, users, req, emitted, activities, socketVars>>

\* writes to the Activity collection succeed again
ActivityStoreRecovers ==
    /\ ~ activityStore
    /\ activityStore' = TRUE
    /\ UNCHANGED <<tasks, users, req, emitted, activities, socketVars>>

\* ---------------------------------------------------------- specifications

\* no createTask is running and no task is stored: the scenarios on a single
\* task create it once
BoardEmpty == FreeIds = TaskIds /\ \A q \in Procs : req[q].pc \notin {"c_user", "c_save"}

\* The board: one client at a time (handler 1, user 1), so every request runs
\* to its response before the next begins. Tasks are created, moved and archived.
Next ==
    \/ \E title \in {"a", "b"}, status \in {"todo", "done"} :
         CreateStart(1, 1, title, status, DefaultPosition, Absent)
    \/ CreateSave(1)
    \/ \E id \in TaskIds, kv \in 1..(MaxVersion - 1),
          status \in {"todo", "done"}, position \in Positions :
         MoveStart(1, 1, id, kv, status, position)
    \/ MoveSave(1)
    \/ MoveShift(1)
    \/ \E id \in TaskIds : ArchiveStart(1, 1, id)
    \/ ArchiveSave(1)

Spec == Init /\ [][Next]_vars

\* Versions: concurrent requests of user 1 on one task, through every handler
\* that checks the client's version.
NextVersion ==
    \/ \E p \in Procs :
         BoardEmpty /\ CreateStart(p, 1, "a", DefaultStatus, DefaultPosition, Absent)
    \/ \E p \in Procs : CreateSave(p)
    \/ \E p \in Procs, kv \in 0..(MaxVersion - 1) :
         UpdateStart(p, 1, 1, kv, NoTitle, Absent)
    \/ \E p \in Procs : UpdateSave(p)
    \/ \E p \in Procs, kv \in 1..(MaxVersion - 1), status \in {"todo", "done"} :
         MoveStart(p, 1, 1, kv, status, DefaultPosition)
    \/ \E p \in Procs : MoveSave(p)
    \/ \E p \in Procs : MoveShift(p)
    \/ \E p \in Procs, kv \in 1..(MaxVersion - 1), assignee \in Users :
         AssignStart(p, 1, 1, kv, assignee)
    \/ \E p \in Procs : AssignUser(p)
    \/ \E p \in Procs : AssignSave(p)
    \/ \E p \in Procs, kv \in 0..(MaxVersion - 1) : SmartStart(p, 1, 1, kv)
    \/ \E p \in Procs : SmartUsers(p)
    \/ \E p \in Procs, selectedUser \in Users : findUserWithFewestTasks(p, selectedUser)

SpecVersion == Init /\ [][NextVersion]_vars

\* Titles: concurrent createTask, title-changing updateTask and archiveTask
\* of user 1.
NextTitle ==
    \/ \E p \in Procs, title \in Titles :
         CreateStart(p, 1, title, DefaultStatus, DefaultPosition, Absent)
    \/ \E p \in Procs : CreateSave(p)
    \/ \E p \in Procs, id \in TaskIds, title \in Titles :
         UpdateStart(p, 1, id, 0, title, Absent)
    \/ \E p \in Procs : UpdateUniq(p)
    \/ \E p \in Procs : UpdateSave(p)
    \/ \E p \in Procs, id \in TaskIds : ArchiveStart(p, 1, id)
    \/ \E p \in Procs : ArchiveSave(p)

SpecTitle == Init /\ [][NextTitle]_vars

\* Assignment: one client at a time; tasks are created, assigned, smart-assigned
\* and unassigned while the administrator deactivates and reactivates users.
NextAssign ==
    \/ \E title \in {"a", "b"}, status \in {"todo", "done"},
          assignee \in Users \cup {Absent} :
         CreateStart(1, 1, title, status, DefaultPosition, assignee)
    \/ CreateUser(1)
    \/ CreateSave(1)
    \/ \E actor \in Users, id \in TaskIds, assignee \in Users \cup {Unset} :
         UpdateStart(1, actor, id, 0, NoTitle, assignee)
    \/ UpdateUser(1)
    \/ UpdateSave(1)
    \/ \E actor \in Users, id \in TaskIds, kv \in 1..(MaxVersion - 1),
          assignee \in Users :
         AssignStart(1, actor, id, kv, assignee)
    \/ AssignUser(1)
    \/ AssignSave(1)
    \/ \E actor \in Users, id \in TaskIds, kv \in 0..(MaxVersion - 1) :
         SmartStart(1, actor, id, kv)
    \/ SmartUsers(1)
    \/ \E selectedUser \in Users : findUserWithFewestTasks(1, selectedUser)
    \/ \E actor \in Users, id \in Users : DeactivateStart(1, actor, id)
    \/ DeactivateSave(1)
    \/ DeactivateUnassign(1)
    \/ \E actor \in Users, id \in Users, isActive \in BOOLEAN :
         UpdateUserStart(1, actor, id, isActive)
    \/ UpdateUserSave(1)

SpecAssign == Init /\ [][NextAssign]_vars

\* Life of a task: one client at a time; the tasks user 1 (the administrator)
\* creates are read, listed, changed through every mutation, commented on by
\* user 2, and archived and deleted by either user.
NextLife ==
    \/ \E title \in {"a", "b"} :
         CreateStart(1, 1, title, DefaultStatus, DefaultPosition, Absent)
    \/ CreateSave(1)
    \/ \E id \in TaskIds : UpdateStart(1, 1, id, MaxVersion - 1, NoTitle, Absent)
    \/ UpdateSave(1)
    \/ \E id \in TaskIds :
         MoveStart(1, 1, id, MaxVersion - 1, "done", DefaultPosition)
    \/ MoveSave(1)
    \/ MoveShift(1)
    \/ \E id \in TaskIds : AssignStart(1, 1, id, MaxVersion - 1, 2)
    \/ AssignUser(1)
    \/ AssignSave(1)
    \/ \E id \in TaskIds : SmartStart(1, 1, id, 0)
    \/ SmartUsers(1)
    \/ \E selectedUser \in Users : findUserWithFewestTasks(1, selectedUser)
    \/ \E id \in TaskIds : AddCommentStart(1, 2, id)
    \/ AddCommentSave(1)
    \/ \E id \in TaskIds : getTask(1, 1, id)
    \/ getAllTasks(1, 1)
    \/ \E actor \in Users, id \in TaskIds : DeleteStart(1, actor, id)
    \/ DeleteSave(1)
    \/ \E actor \in Users, id \in TaskIds : ArchiveStart(1, actor, id)
    \/ ArchiveSave(1)

SpecLife == Init /\ [][NextLife]_vars

\* Sockets: connections are opened with every kind of token while the
\* administrator deactivates and reactivates user 2; connected sockets join and
\* leave the room of task 1, open and close edit sessions on it, and disconnect.
NextSocket ==
    \/ \E s \in Sockets, token \in Tokens : Handshake(s, token)
    \/ \E s \in Sockets : Connection(s)
    \/ \E s \in Sockets : TaskJoin(s, 1)
    \/ \E s \in Sockets : TaskLeave(s, 1)
    \/ \E s \in Sockets : StartEdit(s, 1)
    \/ \E s \in Sockets : EndEdit(s, 1)
    \/ \E s \in Sockets : Disconnect(s)
    \/ \E isActive \in BOOLEAN : UpdateUserStart(1, 1, 2, isActive)
    \/ UpdateUserSave(1)

SpecSocket == Init /\ [][NextSocket]_vars

\* Conflicts: user 1 creates task 1 and updates it with current and stale
\* versions, and resolves over its socket (socket 1), with no conflictId or
\* with conflictId 1, what was rejected.
NextConflict ==
    \/ BoardEmpty /\ CreateStart(1, 1, "a", DefaultStatus, DefaultPosition, Absent)
    \/ CreateSave(1)
    \/ \E kv \in 1..(MaxVersion - 1), title \in {NoTitle, "b"} :
         UpdateStart(1, 1, 1, kv, title, Absent)
    \/ UpdateUniq(1)
    \/ UpdateSave(1)
    \/ Handshake(1, 1)
    \/ Connection(1)
    \/ TaskJoin(1, 1)
    \/ \E resolution \in Resolutions, conflictId \in {NoConflictId, 1} :
         ConflictResolve(1, 1, resolution, conflictId)

SpecConflict == Init /\ [][NextConflict]_vars

\* Activities: one client at a time (user 1); every task mutation and the
\* auth events, while the Activity collection fails and recovers.
NextActivity ==
    \/ \E title \in {"a", "b"} :
         CreateStart(1, 1, title, DefaultStatus, DefaultPosition, Absent)
    \/ CreateSave(1)
    \/ \E id \in TaskIds : UpdateStart(1, 1, id, 0, NoTitle, Absent)
    \/ UpdateSave(1)
    \/ \E id \in TaskIds :
         MoveStart(1, 1, id, MaxVersion - 1, "done", DefaultPosition)
    \/ MoveSave(1)
    \/ MoveShift(1)
    \/ \E id \in TaskIds : AssignStart(1, 1, id, MaxVersion - 1, 2)
    \/ AssignUser(1)
    \/ AssignSave(1)
    \/ \E id \in TaskIds : SmartStart(1, 1, id, 0)
    \/ SmartUsers(1)
    \/ \E selectedUser \in Users : findUserWithFewestTasks(1, selectedUser)
    \/ \E id \in TaskIds : AddCommentStart(1, 1, id)
    \/ AddCommentSave(1)
    \/ \E id \in TaskIds : DeleteStart(1, 1, id)
    \/ DeleteSave(1)
    \/ \E id \in TaskIds : ArchiveStart(1, 1, id)
    \/ ArchiveSave(1)
    \/ \E user \in 1..(NUsers + 1), password \in Passwords : login(1, user, password)
    \/ logout(1, 1)
    \/ \E currentPassword \in Passwords, newPassword \in Passwords :
         changePassword(1, 1, currentPassword, newPassword)
    \/ ActivityStoreFails
    \/ ActivityStoreRecovers

SpecActivity == Init /\ [][NextActivity]_vars

\* Smart assign against user administration: handler 1 creates a task and
\* smart-assigns it while, on handler 2, the administrator deactivates and
\* updates users.
NextNoUser ==
    \/ /\ BoardEmpty
       /\ CreateStart(1, 1, "a", DefaultStatus, DefaultPosition, Absent)
    \/ CreateSave(1)
    \/ \E actor \in Users, id \in TaskIds, kv \in 0..1 :
         SmartStart(1, actor, id, kv)
    \/ SmartUsers(1)
    \/ \E selectedUser \in Users : findUserWithFewestTasks(1, selectedUser)
    \/ AssignSave(1)
    \/ \E id \in Users : DeactivateStart(2, 1, id)
    \/ DeactivateSave(2)
    \/ DeactivateUnassign(2)
    \/ \E id \in Users, isActive \in BOOLEAN : UpdateUserStart(2, 1, id, isActive)
    \/ UpdateUserSave(2)

SpecNoUser == Init /\ [][NextNoUser]_vars

\* Edit sessions: user 1 creates a task and updates, moves, assigns and
\* smart-assigns it (handler 1, one request at a time) while user 2 opens a
\* socket and starts and ends edit sessions on the task.
NextEdit ==
    \/ /\ BoardEmpty
       /\ CreateStart(1, 1, "a", DefaultStatus, DefaultPosition, Absent)
    \/ CreateSave(1)
    \/ \E kv \in 0..(MaxVersion - 1) : UpdateStart(1, 1, 1, kv, NoTitle, Absent)
    \/ UpdateSave(1)
    \/ \E kv \in 1..(MaxVersion - 1) : MoveStart(1, 1, 1, kv, "done", DefaultPosition)
    \/ MoveSave(1)
    \/ MoveShift(1)
    \/ \E kv \in 1..(MaxVersion - 1) : AssignStart(1, 1, 1, kv, 2)
    \/ AssignUser(1)
    \/ AssignSave(1)
    \/ \E kv \in 0..(MaxVersion - 1) : SmartStart(1, 1, 1, kv)
    \/ SmartUsers(1)
    \/ \E selectedUser \in Users : findUserWithFewestTasks(1, selectedUser)
    \/ Handshake(1, 2)
    \/ Connection(1)
    \/ TaskJoin(1, 1)
    \/ StartEdit(1, 1)
    \/ EndEdit(1, 1)

SpecEdit == Init /\ [][NextEdit]_vars

\* The board with a failing database: the requests of the board, and the
\* writes of moveTask may be rejected.
NextMoveFails ==
    \/ Next
    \/ MoveSaveFails(1)
    \/ MoveShiftFails(1)

SpecMoveFails == Init /\ [][NextMoveFails]_vars

\* Resolving over the sockets: user 1 creates a task; two sockets, of user 1
\* and of user 2, connect, join and leave the task's room and send conflict:resolve
\* with strategy merge or cancel, while the Activity collection fails and
\* recovers.
NextResolved ==
    \/ /\ BoardEmpty
       /\ CreateStart(1, 1, "a", DefaultStatus, DefaultPosition, Absent)
    \/ CreateSave(1)
    \/ \E s \in Sockets : Handshake(s, s)
    \/ \E s \in Sockets : Connection(s)
    \/ \E s \in Sockets : TaskJoin(s, 1)
    \/ \E s \in Sockets : TaskLeave(s, 1)
    \/ \E s \in Sockets, resolution \in {"merge", "cancel"} :
         ConflictResolve(s, 1, resolution, NoConflictId)
    \/ ActivityStoreFails
    \/ ActivityStoreRecovers

SpecResolved == Init /\ [][NextResolved]_vars

\* Resolving conflicts as administrator: user 2 creates a task, updates it
\* and updates it again with the version it first read, which records a
\* conflict; the socket of user 2 sends conflict:resolve; user 1 (the
\* administrator) and user 2 call resolveConflict on two handlers at once.
NextAdmin ==
    \/ /\ BoardEmpty
       /\ CreateStart(1, 2, "a", DefaultStatus, DefaultPosition, Absent)
    \/ CreateSave(1)
    \/ UpdateStart(1, 2, 1, 1, NoTitle, Absent)
    \/ UpdateSave(1)
    \/ Handshake(1, 2)
    \/ Connection(1)
    \/ ConflictResolve(1, 1, "merge", 1)
    \/ \E p \in Procs, actor \in Users, activity \in activities \cup {NoActivity} :
         ResolveStart(p, actor, activity)
    \/ \E p \in Procs : ResolveSave(p)

SpecAdmin == Init /\ [][NextAdmin]_vars

\* ------------------------------------------------------------------ claims

Answered(p, op) == req[p].pc = "replied" /\ req[p].op = op

\* C1: two updateTask calls on the same task that both read the stored
\* version kv and both carry kv never both succeed: exactly one wins and the
\* other is answered Conflict.
C1_ExactlyOneUpdateSucceeds ==
    \A p \in Procs, q \in Procs :
        ( /\ p # q
          /\ Answered(p, "update") /\ Answered(q, "update")
          /\ req[p].id = req[q].id
          /\ req[p].kv # 0 /\ req[p].kv = req[q].kv
          /\ req[p].doc.version = req[p].kv /\ req[q].doc.version = req[q].kv
          /\ req[p].code = "ok" )
        => req[q].code = "Conflict"

VersionedOps == {"update", "move", "assign", "smart"}
StateChangingOps == VersionedOps \cup {"archive"}

\* handler p sends a response in this step
Replies(p) == req[p].pc \notin {"idle", "replied"} /\ req'[p].pc = "replied"

\* C2: every successful updateTask, moveTask, assignTask, smartAssignTask and
\* archiveTask leaves the task's stored version strictly greater than the
\* version stored when the operation read the task.
C2_VersionStrictlyIncreases ==
    [][\A p \in Procs :
          (Replies(p) /\ req'[p].code = "ok" /\ req'[p].op \in StateChangingOps)
          => tasks'[req'[p].id].version > req[p].doc.version]_vars

\* handler p takes up a new request in this step
Begins(p) == req[p].pc \in {"idle", "replied"} /\ req'[p] # req[p]

\* C3: updateTask, moveTask, assignTask and smartAssignTask called with a known
\* version kv on a stored, non-archived task whose version is greater than kv
\* are answered Conflict with clientVersion = kv and serverVersion = the stored
\* version, and no task is changed.
C3_StaleVersionIsConflict ==
    [][\A p \in Procs :
          ( /\ Begins(p)
            /\ req'[p].op \in VersionedOps
            /\ req'[p].kv >= 1
            /\ ~ NotFound(req'[p].id)
            /\ tasks[req'[p].id].version > req'[p].kv )
          => ( /\ req'[p].pc = "replied"
               /\ req'[p].code = "Conflict"
               /\ req'[p].cv = req'[p].kv
               /\ req'[p].sv = tasks[req'[p].id].version
               /\ tasks' = tasks )]_vars

\* C3 witness: moveTask and smartAssignTask were both answered Conflict for a
\* version older than the stored one
C3_Witness ==
    \E p \in Procs, q \in Procs :
        /\ Answered(p, "move") /\ req[p].code = "Conflict" /\ req[p].sv > req[p].cv
        /\ Answered(q, "smart") /\ req[q].code = "Conflict" /\ req[q].sv > req[q].cv
        /\ req[p].cv >= 1 /\ req[q].cv >= 1

\* the tasks shown on the board
Live == {t \in TaskIds : tasks[t].exists /\ ~ tasks[t].isArchived}

\* C4: no two non-archived tasks have titles that are equal ignoring case.
C4_TitlesUniqueIgnoringCase ==
    \A s \in Live, t \in Live :
        s # t => toLowerCase(tasks[s].title) # toLowerCase(tasks[t].title)

Column(status) == {t \in Live : tasks[t].status = status}

ColumnPositions(status) == {tasks[t].position : t \in Column(status)}

\* the positions of a column are 0..n-1, each taken once
Compact(status) ==
    /\ ColumnPositions(status) = 0..(Cardinality(Column(status)) - 1)
    /\ \A s \in Column(status), t \in Column(status) :
          s # t => tasks[s].position # tasks[t].position

\* C5: when moveTask has answered with success, the positions of the
\* non-archived tasks of every status column are exactly 0..n-1 without
\* duplicates or gaps.
C5_PositionsCompactAfterMove ==
    \A p \in Procs :
        (Answered(p, "move") /\ req[p].code = "ok")
        => \A status \in Statuses : Compact(status)

\* the event the board room is to receive for a mutation
EventOf(op) ==
    CASE op = "create" -> "task:created"
      [] op = "update" -> "task:updated"
      [] op = "move" -> "task:moved"
      [] op = "assign" -> "task:assigned"
      [] op = "smart" -> "task:assigned"
      [] op = "archive" -> "task:archived"
      [] OTHER -> "none"

\* C6: when a task mutation has answered with success, its event has been
\* emitted to the board room.
C6_EventEmittedBeforeReply ==
    \A p \in Procs :
        ( /\ req[p].pc = "replied" /\ req[p].code = "ok"
          /\ req[p].op \in StateChangingOps \cup {"create"} )
        => [room |-> "board", event |-> EventOf(req[p].op), task |-> req[p].id]
              \in emitted

\* no request is being handled
Quiescent == \A p \in Procs : req[p].pc \in {"idle", "replied"}

\* C7: once every operation has completed, each task's assignedTo is unset or
\* references a user whose isActive is true.
C7_AssigneeIsActive ==
    Quiescent =>
        \A t \in TaskIds :
            (tasks[t].exists /\ tasks[t].assignedTo # Unset)
            => users[tasks[t].assignedTo].isActive

\* load(u): the non-archived tasks assigned to u in todo or in-progress
load(u) ==
    Cardinality({t \in Live : tasks[t].assignedTo = u
                              /\ tasks[t].status \in {"todo", "in-progress"}})

ActiveUsers == {u \in Users : users[u].isActive}

MinLoadUsers == {u \in ActiveUsers : \A w \in ActiveUsers : load(u) <= load(w)}

\* C8: the user findUserWithFewestTasks returns is an active user whose load
\* is the minimum load over all active users, and every active user of
\* minimum load can be returned.
C8_SmartAssignPicksAnyMinLoadUser ==
    /\ [][\A p \in Procs :
            (req[p].pc = "s_count" /\ req'[p].pc = "a_save")
            => req'[p].assignee \in MinLoadUsers]_vars
    /\ [](\A p \in Procs :
            req[p].pc = "s_count"
            => \A u \in MinLoadUsers : ENABLED findUserWithFewestTasks(p, u))

\* C8 witness: users 1 and 2 are active with the same load, and the selection
\* returned user 2
C8_Witness ==
    \E p \in Procs :
        /\ req[p].pc = "a_save" /\ req[p].op = "smart" /\ req[p].assignee = 2
        /\ {1, 2} \subseteq MinLoadUsers
        /\ \E t \in Live : tasks[t].assignedTo # Unset

\* C9: a moveTask(T, S, i) repeated right after the same successful move, with
\* the version that move returned, changes the status and position of no task.
C9_MoveIsIdempotent ==
    [][\A p \in Procs :
          (req[p].op = "move" /\ req[p].again /\ req[p].pc \in {"m_save", "m_shift"})
          => \A t \in TaskIds : /\ tasks'[t].status = tasks[t].status
                                /\ tasks'[t].position = tasks[t].position]_vars

\* one more than the largest position of a column, 0 for an empty column
NextPosition(status) ==
    IF Column(status) = {} THEN 0
    ELSE 1 + CHOOSE m \in ColumnPositions(status) :
                 \A n \in ColumnPositions(status) : n <= m

\* C10: createTask by actor a stores and returns a task with version 1,
\* createdBy a and the position one more than the largest position among the
\* non-archived tasks already in its column (0 when the column is empty).
C10_CreateAppendsToColumn ==
    [][\A p \in Procs :
          (req[p].pc = "c_save" /\ req'[p].pc = "replied" /\ req'[p].code = "ok")
          => LET task == tasks'[req'[p].id]
             IN /\ task.version = 1
                /\ task.createdBy = req[p].actor
                /\ task.position = NextPosition(task.status)]_vars

\* C11: addComment on a task whose version is v appends the comment as the
\* last element of the task's comments and leaves the task's version equal
\* to v.
C11_CommentKeepsVersion ==
    [][\A p \in Procs :
          (req[p].pc = "k_save" /\ req'[p].pc = "replied" /\ req'[p].code = "ok")
          => LET before == tasks[req[p].id]
                 after == tasks'[req[p].id]
             IN /\ after.comments = Append(before.comments, req[p].actor)
                /\ after.version = before.version]_vars

\* the operations on one task that an archived task rejects
OpsOnTask == {"update", "move", "assign", "smart", "comment", "delete",
              "archive", "get"}

\* C12: a getTask or a mutation (updateTask, moveTask, assignTask,
\* smartAssignTask, addComment, deleteTask, archiveTask) that arrives for an
\* archived task is answered NotFound and changes no task, and no getAllTasks
\* result holds an archived task.
C12_ArchivedTaskIsGone ==
    [][\A p \in Procs :
          /\ ( /\ Begins(p) /\ req'[p].op \in OpsOnTask
               /\ tasks[req'[p].id].exists /\ tasks[req'[p].id].isArchived )
             => ( /\ req'[p].pc = "replied" /\ req'[p].code = "NotFound"
                  /\ tasks' = tasks )
          /\ (Begins(p) /\ req'[p].op = "list")
             => \A t \in req'[p].list : ~ tasks[t].isArchived]_vars

\* C12 witness: addComment was answered NotFound for an archived task while
\* another task is on the board
C12_Witness ==
    \E p \in Procs :
        /\ Answered(p, "comment") /\ req[p].code = "NotFound"
        /\ tasks[req[p].id].exists /\ tasks[req[p].id].isArchived
        /\ Live # {}

\* C13: archiveTask and deleteTask succeed only for the task's creator or an
\* admin.
C13_OnlyCreatorOrAdminRemoves ==
    [][\A p \in Procs :
          ( /\ req[p].pc \in {"r_save", "x_delete"}
            /\ req'[p].pc = "replied" /\ req'[p].code = "ok" )
          => \/ tasks[req[p].id].createdBy = req[p].actor
             \/ Role(req[p].actor) = "admin"]_vars

\* C14: every updateTask, moveTask, assignTask or smartAssignTask answered
\* Conflict records exactly one conflict_detected activity with isResolved
\* false and a conflictId no earlier activity carries, and the descriptor
\* returned carries that conflictId.
C14_ConflictIsRecorded ==
    [][\A p \in Procs :
          ( /\ Begins(p) /\ req'[p].op \in VersionedOps
            /\ req'[p].pc = "replied" /\ req'[p].code = "Conflict" )
          => \E a \in activities' :
                /\ activities' \ activities = {a}
                /\ a.action = "conflict_detected"
                /\ ~ a.isResolved
                /\ \A b \in activities : b.conflictId # a.conflictId
                /\ req'[p].cid = a.conflictId]_vars

\* socket s holds an open edit session on task t
Editing(s, t) == Room("editing", t) \in sockets[s].rooms

\* C17: whenever an edit session of socket s on task T ends, by task:end-edit
\* or by the disconnect of s, a task:edit-ended of s for T has been broadcast
\* to room task:T.
C17_EditSessionEndsWithEvent ==
    [][\A s \in Sockets, t \in TaskIds :
          (Editing(s, t) /\ Room("editing", t) \notin sockets'[s].rooms)
          => \E m \in emitted' :
                /\ m.event = "task:edit-ended" /\ m.room = "task"
                /\ m.task = t /\ m.from = s]_vars

\* C18: when socket s starts editing task T while a socket of another user
\* holds an edit session on T, s is sent edit:contended, and
\* task:edit-started is still broadcast to task:T.
C18_ContendedEditIsAnnounced ==
    [][\A s \in Sockets, t \in TaskIds :
          ( /\ StartEdit(s, t)
            /\ \E r \in Sockets : /\ Editing(r, t)
                                  /\ sockets[r].user # sockets[s].user )
          => /\ \E m \in emitted' :
                   m.event = "edit:contended" /\ m.task = t /\ s \in m.to
             /\ \E m \in emitted' :
                   /\ m.event = "task:edit-started" /\ m.room = "task"
                   /\ m.task = t /\ m.from = s]_vars

\* C19: the disconnect of socket s removes it from every room and from
\* connectedUsers in one step and emits users:updated, carrying the list
\* without s, to the board room; no message emitted at or after the
\* disconnect is delivered to s.
C19_DisconnectLeavesEverything ==
    [][\A s \in Sockets :
          /\ (sockets[s].state = "connected" /\ sockets'[s].state = "closed")
             => /\ sockets'[s].rooms = {}
                /\ s \notin connectedUsers'
                /\ \E m \in emitted' :
                      /\ m.event = "users:updated" /\ m.room = "board"
                      /\ m.from = s /\ m.users = connectedUsers \ {s}
          /\ sockets'[s].state = "closed"
             => \A m \in emitted' \ emitted : s \notin m.to]_vars

\* C19 witness: a socket has disconnected and the users:updated of its
\* disconnect, without it in the list, went to another socket on the board
C19_Witness ==
    \E s \in Sockets :
        /\ sockets[s].state = "closed"
        /\ \E m \in emitted :
              /\ m.event = "users:updated" /\ m.from = s
              /\ s \notin m.users /\ m.users # {} /\ m.to # {}

\* the token is missing, invalid, or of a missing or inactive user
BadToken(token) ==
    \/ token \in {NoToken, InvalidToken}
    \/ token \notin Users
    \/ ~ users[token].isActive

\* C20: a handshake with no token, an invalid token or a token of a missing
\* or inactive user is rejected, one with a valid token of an active user is
\* accepted; a rejected connection is in no room and not in connectedUsers; a
\* connected one is in connectedUsers, in the board room and in the room of
\* its user.
C20_HandshakeAdmitsActiveUsersOnly ==
    /\ [][\A s \in Sockets :
            (sockets[s].state = "none" /\ sockets'[s].state # "none")
            => IF BadToken(sockets'[s].token)
               THEN sockets'[s].state = "rejected"
               ELSE /\ sockets'[s].state = "verified"
                    /\ sockets'[s].user = sockets'[s].token]_vars
    /\ [][\A s \in Sockets :
            sockets[s].state = "rejected" => sockets'[s].state = "rejected"]_vars
    /\ [](\A s \in Sockets :
            /\ sockets[s].state \in {"none", "rejected", "verified"}
               => (s \notin connectedUsers /\ Members(Board) \cap {s} = {}
                   /\ sockets[s].rooms = {})
            /\ sockets[s].state = "connected"
               => /\ s \in connectedUsers
                  /\ {Board, Room("user", sockets[s].user)} \subseteq sockets[s].rooms)

\* C20 witness: the token of a deactivated user was rejected while another
\* socket is connected
C20_Witness ==
    \E s \in Sockets, r \in Sockets :
        /\ sockets[s].state = "rejected" /\ sockets[s].token \in Users
        /\ sockets[r].state = "connected" /\ r \in connectedUsers

\* C15: after an updateTask of a user was answered Conflict, a
\* conflict:resolve of that user with strategy merge applies the patch as an
\* updateTask on the current version: the task's version grows by one, the
\* field the client changed holds the client's value, and task:updated goes
\* to the task room and the board room.
C15_MergeReappliesUpdate ==
    [][\A s \in Sockets, t \in TaskIds, cid \in 0..MaxActivities, p \in Procs :
          ( /\ ConflictResolve(s, t, "merge", cid)
            /\ Answered(p, "update") /\ req[p].code = "Conflict"
            /\ req[p].id = t /\ req[p].actor = sockets[s].user )
          => /\ tasks'[t].version = tasks[t].version + 1
             /\ req[p].title # NoTitle => tasks'[t].title = req[p].title
             /\ \A room \in {"task", "board"} :
                   \E m \in emitted' :
                      m.event = "task:updated" /\ m.room = room /\ m.task = t]_vars

\* conflictId names a conflict the server detected on task t
KnownConflict(conflictId, t) ==
    \E a \in activities :
        /\ a.action = "conflict_detected"
        /\ a.conflictId = conflictId /\ a.target = t

\* C16: a conflict:resolve whose conflictId matches no conflict detected on
\* its task emits no conflict:resolved and records no conflict_resolved
\* activity.
C16_UnknownConflictIsRejected ==
    [][\A s \in Sockets, t \in TaskIds, cid \in 0..MaxActivities,
          resolution \in Resolutions :
          (ConflictResolve(s, t, resolution, cid) /\ ~ KnownConflict(cid, t))
          => /\ \A m \in emitted' \ emitted : m.event # "conflict:resolved"
             /\ \A a \in activities' \ activities : a.action # "conflict_resolved"]_vars

\* the operations that are task mutations, and those that are auth events
MutationOps == {"create", "update", "move", "assign", "smart", "comment",
                "archive", "delete"}
AuthOps == {"login", "logout", "password"}

\* C21: while the Activity collection accepts writes, every successful task
\* mutation and every successful login, logout and password change persists
\* exactly one activity record for its event.
C21_OneActivityPerEvent ==
    [][\A p \in Procs :
          ( /\ req'[p] # req[p] /\ req'[p].pc = "replied" /\ req'[p].code = "ok"
            /\ req'[p].op \in MutationOps \cup AuthOps
            /\ activityStore )
          => Len(req'[p].logged) = 1]_vars

\* what the last step of a mutation leaves stored
Persisted(r, before, after) ==
    CASE r.op = "create" -> after.exists /\ after.title = r.title
      [] r.op = "update" -> after.lastModifiedBy = r.actor /\ after.version = r.sv
      [] r.op = "move" -> after.status = r.status /\ after.position = r.position
      [] r.op \in {"assign", "smart"} -> after.assignedTo = r.assignee
      [] r.op = "comment" -> Len(after.comments) = Len(before.comments) + 1
      [] r.op = "archive" -> after.isArchived
      [] r.op = "delete" -> ~ after.exists
      [] OTHER -> FALSE

\* the steps in which a mutation logs its activity and replies
LastSteps == {"c_save", "u_save", "m_shift", "a_save", "k_save", "r_save", "x_delete"}

\* C22: when the activity write of a task mutation fails, nothing is logged
\* but the mutation still answers with success and its change is stored.
C22_FailedActivityKeepsMutation ==
    [][\A p \in Procs :
          (req[p].pc \in LastSteps /\ req'[p].pc = "replied" /\ ~ activityStore)
          => /\ req'[p].code = "ok"
             /\ req'[p].logged = <<>>
             /\ Persisted(req'[p], tasks[req'[p].id], tasks'[req'[p].id])]_vars

\* C22 witness: an updateTask answered with success without an activity
\* while the Activity collection is failing
C22_Witness ==
    \E p \in Procs :
        /\ Answered(p, "update") /\ req[p].code = "ok"
        /\ req[p].logged = <<>> /\ ~ activityStore
        /\ tasks[req[p].id].version = req[p].sv

\* C23: a smart assign that finds no active user answers NoEligibleUser, not
\* Internal, and leaves every stored task (its assignee and its version) as
\* it was.
C23_NoActiveUserIsNoEligibleUser ==
    [][\A p \in Procs :
         (req[p].pc = "s_users" /\ req'[p].pc = "replied"
            /\ findActiveUsers = {})
         => /\ req'[p].code = "NoEligibleUser"
            /\ tasks' = tasks]_vars

\* C24: edit sessions are advisory. How updateTask, moveTask, assignTask and
\* smartAssignTask answer is decided by the stored task and the version the
\* client sent alone: NotFound exactly for a missing or archived task,
\* Conflict exactly for a stored version greater than a sent one, on to the
\* write otherwise, and the write is answered ok, whoever holds an edit
\* session on the task.
C24_EditSessionsAreAdvisory ==
    [][\A p \in Procs :
         /\ (Begins(p) /\ req'[p].op \in VersionedOps)
            => LET r == req'[p]
                   stale == r.kv # 0 /\ tasks[r.id].version > r.kv
               IN /\ (r.pc = "replied" /\ r.code = "NotFound") <=> NotFound(r.id)
                  /\ (r.pc = "replied" /\ r.code = "Conflict")
                       <=> (~ NotFound(r.id) /\ stale)
                  /\ r.pc = "replied" => r.code \in {"NotFound", "Conflict"}
                  /\ tasks' = tasks
         /\ (req[p].pc \in {"u_save", "m_shift", "a_save"} /\ req'[p].pc = "replied")
            => req'[p].code = "ok"]_vars

\* C24 witness: an update of user 1 was answered ok with the version it wrote
\* still stored, and a socket of another user holds an edit session on the task
C24_Witness ==
    \E p \in Procs, s \in Sockets :
        /\ Answered(p, "update") /\ req[p].code = "ok"
        /\ tasks[req[p].id].version = req[p].sv
        /\ sockets[s].state = "connected"
        /\ sockets[s].user # req[p].actor
        /\ Editing(s, req[p].id)

\* C25: while moveTask writes, every task whose position changes has its
\* version raised by exactly one, and every other task than the moved one
\* whose position stays is left as it was.
C25_ShiftedTasksBumpVersion ==
    [][\A p \in Procs :
         (req[p].op = "move" /\ req[p].pc \in {"m_save", "m_shift"}
            /\ req'[p] # req[p])
         => \A t \in TaskIds :
              /\ tasks'[t].position # tasks[t].position
                 => tasks'[t].version = tasks[t].version + 1
              /\ (t # req[p].id /\ tasks'[t].position = tasks[t].position)
                 => tasks'[t] = tasks[t]]_vars

\* C26: a moveTask whose write is rejected answers Internal with the stored
\* status and position of every task as they were when the call began: the
\* moved task still has the status and position the handler read, and the
\* failing step writes no task.
C26_FailedMoveChangesNothing ==
    [][\A p \in Procs :
         (req[p].op = "move" /\ req[p].pc \in {"m_save", "m_shift"}
            /\ req'[p].pc = "replied" /\ req'[p].code # "ok")
         => /\ req'[p].code = "Internal"
            /\ tasks' = tasks
            /\ tasks'[req[p].id].status = req[p].doc.status
            /\ tasks'[req[p].id].position = req[p].doc.position]_vars

C28_UpdateRaisesVersionByOne ==
    [][\A p \in Procs :
         (req[p].op = "update" /\ req[p].pc = "u_save"
            /\ req'[p].pc = "replied" /\ req'[p].code = "ok")
         => tasks'[req[p].id].version = tasks[req[p].id].version + 1]_vars

\* the sockets that are connected, and those of them that belong to user u
Connected == {s \in Sockets : sockets[s].state = "connected"}
ConnectedOf(u) == {s \in Connected : sockets[s].user = u}

\* C29: the presence list is consistent. connectedUsers has exactly one entry
\* per connected socket (a user with k sockets has k entries),
\* isUserConnected of a user's id is true exactly when one of the connected
\* sockets is the user's, and users:updated always carries the current list:
\* a step that changes connectedUsers emits a users:updated with the new
\* list, and no other step emits a users:updated.
C29_PresenceListIsConsistent ==
    [][/\ connectedUsers' = Connected'
       /\ \A u \in Users :
            /\ Cardinality({e \in getConnectedUsers' : e.id = ToString(u)})
                 = Cardinality(ConnectedOf(u)')
            /\ isUserConnected(ToString(u))' <=> ConnectedOf(u)' # {}
       /\ \A m \in emitted' \ emitted :
            m.event = "users:updated" => m.users = connectedUsers'
       /\ connectedUsers' # connectedUsers
            => \E m \in emitted' \ emitted : m.event = "users:updated"]_vars

\* C29 witness: a user had two sockets connected; one has closed, its
\* users:updated carried the list without it, and the user still counts as
\* connected through the other
C29_Witness ==
    \E s \in Sockets, r \in Sockets, m \in emitted :
        /\ s # r /\ sockets[s].user = sockets[r].user
        /\ sockets[s].state = "closed" /\ sockets[r].state = "connected"
        /\ connectedUsers = {r}
        /\ m.event = "users:updated" /\ m.from = s /\ m.users = {r}
        /\ isUserConnected(ToString(sockets[s].user))

\* the stored conflict_detected activities with conflict id cid
Conflicts(cid) ==
    {a \in activities : a.action = "conflict_detected" /\ a.conflictId = cid}

\* C30: resolving a conflict activity is one-way and happens at most once.
\* A resolveConflict answered with success has written an activity that was
\* a stored conflict_detected with isResolved false right before the write (a
\* second call, also a concurrent one, is rejected), and no stored activity
\* goes from resolved back to unresolved.
C30_ConflictIsResolvedOnce ==
    [][/\ \A p \in Procs :
            (req[p].op = "resolve" /\ req[p].pc = "v_save"
               /\ req'[p].pc = "replied" /\ req'[p].code = "ok")
            => /\ Conflicts(req[p].cid) # {}
               /\ \A a \in Conflicts(req[p].cid) : ~ a.isResolved
       /\ \A a \in activities :
            a.isResolved => \E b \in activities' :
                               /\ b.isResolved
                               /\ b.action = a.action
                               /\ b.conflictId = a.conflictId]_vars

====
